---- MODULE Spec2Model ----
(***************************************************************************)
(* A model of src/server.c: a single-threaded HTTP/1.0 static file server. *)
(* Byte strings are TLA+ strings; Char(s, i) is the i-th byte (1-based).   *)
(***************************************************************************)
EXTENDS Integers, Sequences, FiniteSets, TLC

(***************************************************************************)
(* Program constants                                                       *)
(***************************************************************************)
MAXDATASIZE == 4096
HEADER_SIZE == 512
ERRBODY_SIZE == 256
METHOD_WIDTH == 7
PATH_WIDTH == 255
PROTOCOL_WIDTH == 15
PATH_MAX == 4096

(***************************************************************************)
(* Bounds of the model                                                     *)
(***************************************************************************)
\* number of accept calls of the loop that the model follows
MaxAccepts == 2
\* number of symbolic links realpath follows before it gives up (ELOOP)
MaxLinks == 3

(***************************************************************************)
(* C string helpers                                                        *)
(***************************************************************************)
Char(s, i) == SubSeq(s, i, i)

Min(a, b) == IF a < b THEN a ELSE b

\* strchr: index of the first occurrence of the byte c in s, 0 when absent
strchr(s, c) ==
  IF \E i \in 1..Len(s) : Char(s, i) = c
    THEN CHOOSE i \in 1..Len(s) :
           /\ Char(s, i) = c
           /\ \A j \in 1..(i - 1) : Char(s, j) # c
    ELSE 0

\* the string c repeated n times
RECURSIVE Repeat(_, _)
Repeat(c, n) ==
  IF n = 0 THEN ""
  ELSE LET half == Repeat(c, n \div 2)
       IN  half \o half \o (IF n % 2 = 1 THEN c ELSE "")

\* strrchr: index of the last occurrence of the byte c in s, 0 when absent
strrchr(s, c) ==
  IF \E i \in 1..Len(s) : Char(s, i) = c
    THEN CHOOSE i \in 1..Len(s) :
           /\ Char(s, i) = c
           /\ \A j \in (i + 1)..Len(s) : Char(s, j) # c
    ELSE 0

\* strstr(s, sub) != NULL
strstr(s, sub) ==
  \E i \in 1..(Len(s) - Len(sub) + 1) : SubSeq(s, i, i + Len(sub) - 1) = sub

\* strncmp(a, b, n) == 0 for strings without embedded NUL
strncmpEq(a, b, n) ==
  SubSeq(a, 1, Min(n, Len(a))) = SubSeq(b, 1, Min(n, Len(b)))

\* snprintf(buf, size, ...) of the formatted text: buf keeps size - 1 bytes,
\* the return value is the untruncated length
snprintf(size, text) ==
  [buf |-> SubSeq(text, 1, Min(Len(text), size - 1)), ret |-> Len(text)]

(***************************************************************************)
(* sscanf(buf, "%7s %255s %15s", method, path, protocol)                   *)
(***************************************************************************)
isspace(c) == c \in {" ", "\t", "\n", "\r", "\f"}

\* first index >= i of s that is not white space (Len(s) + 1 at the end)
SkipSpace(s, i) ==
  CHOOSE j \in i..(Len(s) + 1) :
    /\ j = Len(s) + 1 \/ ~isspace(Char(s, j))
    /\ \A k \in i..(j - 1) : isspace(Char(s, k))

\* index after the token that starts at `from`: the token ends at white
\* space, at the end of the input, or when the field width is reached
TokenEnd(s, from, width) ==
  CHOOSE j \in from..Min(Len(s) + 1, from + width) :
    /\ j = Len(s) + 1 \/ j = from + width \/ isspace(Char(s, j))
    /\ \A k \in from..(j - 1) : ~isspace(Char(s, k))

\* one %<width>s conversion at index i: ok is FALSE on an input failure
ScanString(s, i, width) ==
  LET from == SkipSpace(s, i)
      to   == TokenEnd(s, from, width)
  IN  [ok |-> from <= Len(s), tok |-> SubSeq(s, from, to - 1), next |-> to]

sscanf3(buf) ==
  LET m == ScanString(buf, 1, METHOD_WIDTH)
      p == ScanString(buf, m.next, PATH_WIDTH)
      q == ScanString(buf, p.next, PROTOCOL_WIDTH)
  IN  IF ~m.ok THEN [n |-> -1, method |-> "", path |-> "", protocol |-> ""]
      ELSE IF ~p.ok THEN [n |-> 1, method |-> m.tok, path |-> "", protocol |-> ""]
      ELSE IF ~q.ok THEN [n |-> 2, method |-> m.tok, path |-> p.tok, protocol |-> ""]
      ELSE [n |-> 3, method |-> m.tok, path |-> p.tok, protocol |-> q.tok]

\* "Remove query string and fragments": cut at the first '?', then at the
\* first '#' of what is left
CutAt(s, c) == IF strchr(s, c) = 0 THEN s ELSE SubSeq(s, 1, strchr(s, c) - 1)

\* a strip that cuts at the query string only
StripQueryOnly(path) == CutAt(path, "?")

StripQueryFragment(path) == CutAt(CutAt(path, "?"), "#")

(***************************************************************************)
(* The file system the server runs on.  Keys are canonical absolute paths. *)
(***************************************************************************)
Dir == [kind |-> "dir", data |-> "", readable |-> TRUE, target |-> ""]
File(d) == [kind |-> "file", data |-> d, readable |-> TRUE, target |-> ""]
Unreadable(d) == [kind |-> "file", data |-> d, readable |-> FALSE, target |-> ""]
Link(t) == [kind |-> "link", data |-> "", readable |-> TRUE, target |-> t]
\* a directory the server may neither list nor search
NoSearchDir == [kind |-> "dir", data |-> "", readable |-> FALSE, target |-> ""]

FS ==
  "/w" :> Dir @@
  "/w/index.html" :> File("Hello World!\n") @@
  "/w/style.css" :> File("p{}") @@
  "/w/empty.js" :> File("") @@
  "/w/pic.jpg" :> File("JFIF") @@
  "/w/pic.jpeg" :> File("JFIF2") @@
  "/w/UP.HTML" :> File("<P>") @@
  "/w/a..b" :> File("dots") @@
  "/w/a.b" :> Dir @@
  "/w/a.b/readme" :> File("read me") @@
  "/w/priv" :> Unreadable("private") @@
  "/w/locked" :> NoSearchDir @@
  "/w/locked/f.html" :> File("locked") @@
  "/w/out" :> Link("/etc/passwd") @@
  "/w/sib" :> Link("/w2/secret") @@
  "/w/dead" :> Link("/w/missing") @@
  "/w/loop" :> Link("/w/loop") @@
  "/w2" :> Dir @@
  "/w2/secret" :> File("secret") @@
  "/etc" :> Dir @@
  "/etc/passwd" :> File("root:x:0:0") @@
  "/l" :> Link("/w") @@
  "/v" :> Dir @@
  "/v/x.png" :> File("PNG")

\* /w written with so many trailing separators that LongRoot followed by
\* "/style.css" fills requested_path to its last byte
LongRoot == "/w" \o Repeat("/", PATH_MAX - 1 - Len("/w") - Len("/style.css"))

\* the values of argv[2] the server is started with
RootDirs == {"/w", "/w/", "/l", "/v", LongRoot}

(***************************************************************************)
(* realpath(3)                                                             *)
(***************************************************************************)
\* the canonical path `resolved` without its last component
Parent(resolved) ==
  IF strrchr(resolved, "/") = 0 THEN ""
  ELSE SubSeq(resolved, 1, strrchr(resolved, "/") - 1)

RealpathFail == [ok |-> FALSE, path |-> ""]

\* something other than separators is left to look up
HasComponent(rest) == \E i \in 1..Len(rest) : Char(rest, i) # "/"

\* index of the first byte of rest that is not a separator (Len(rest) + 1
\* when there is none)
\* found by bisection: the first n bytes of rest are all separators for n = lo
\* and not for any n > hi
RECURSIVE SlashRun(_, _, _)
SlashRun(rest, lo, hi) ==
  IF lo = hi THEN lo
  ELSE LET mid == (lo + hi + 1) \div 2
       IN  IF SubSeq(rest, 1, mid) = Repeat("/", mid)
             THEN SlashRun(rest, mid, hi)
             ELSE SlashRun(rest, lo, mid - 1)

SkipSlashes(rest) == SlashRun(rest, 0, Len(rest)) + 1

\* resolved: canonical prefix ("" is the root directory); rest: what is left
\* of the path; links: symbolic links followed so far
RECURSIVE ResolvePath(_, _, _)
ResolvePath(resolved, rest, links) ==
  IF rest = "" THEN [ok |-> TRUE, path |-> IF resolved = "" THEN "/" ELSE resolved]
  ELSE IF Char(rest, 1) = "/"
    THEN ResolvePath(resolved, SubSeq(rest, SkipSlashes(rest), Len(rest)), links)
  ELSE
    LET slash == strchr(rest, "/")
        comp  == IF slash = 0 THEN rest ELSE SubSeq(rest, 1, slash - 1)
        after == IF slash = 0 THEN "" ELSE SubSeq(rest, slash, Len(rest))
        cand  == resolved \o "/" \o comp
    IN  IF comp = "." THEN ResolvePath(resolved, after, links)
        ELSE IF comp = ".." THEN ResolvePath(Parent(resolved), after, links)
        ELSE IF cand \notin DOMAIN FS THEN RealpathFail
        ELSE IF FS[cand].kind = "link"
          THEN IF links >= MaxLinks THEN RealpathFail
               ELSE IF Char(FS[cand].target, 1) = "/"
                 THEN ResolvePath("", FS[cand].target \o after, links + 1)
                 ELSE ResolvePath(resolved, FS[cand].target \o after, links + 1)
        ELSE IF FS[cand].kind # "dir" /\ after # "" THEN RealpathFail
        ELSE IF ~FS[cand].readable /\ HasComponent(after) THEN RealpathFail
        ELSE ResolvePath(cand, after, links)

\* realpath(path, out) for an absolute path: ok is FALSE when it returns NULL
realpath(path) ==
  IF path = "" \/ Len(path) >= PATH_MAX THEN RealpathFail
  ELSE ResolvePath("", path, 0)

(***************************************************************************)
(* Outcomes of the system calls of one connection, chosen by the           *)
(* environment.  sends[k] is the outcome of the k-th send call.            *)
(***************************************************************************)
SendModes == {"full", "short", "fail"}

\* ftell at the end of an opened directory: the value depends on the platform
DirSizes == {0, 4096}

Envs ==
  [sends : [1..4 -> SendModes], malloc : BOOLEAN, fread : {"full", "short"},
   dirsize : DirSizes]

\* return value of send(fd, data, len, 0)
SendRet(mode, len) ==
  IF mode = "fail" THEN -1
  ELSE IF mode = "short" /\ len > 1 THEN len \div 2
  ELSE len

\* the events a connection leaves behind, in program order
SendEv(k, part, data, len, env) ==
  [op |-> "send", part |-> part, data |-> data, len |-> len,
   ret |-> SendRet(env.sends[k], len)]

Ev(op, arg) == [op |-> op, part |-> "", data |-> arg, len |-> 0, ret |-> 0]

(***************************************************************************)
(* send_response, send_error                                               *)
(***************************************************************************)
HeaderText(status_code, status_text, content_type, body_len) ==
  "HTTP/1.0 " \o ToString(status_code) \o " " \o status_text \o "\r\n" \o
  "Content-Type: " \o content_type \o "\r\n" \o
  "Content-Length: " \o ToString(body_len) \o "\r\n" \o
  "\r\n"

\* k: index of the first send call this response makes
send_response(k, env, status_code, status_text, content_type, body) ==
  LET body_len == Len(body)
      header   == snprintf(HEADER_SIZE,
                    HeaderText(status_code, status_text, content_type, body_len))
  IN  <<SendEv(k, "header", header.buf, header.ret, env)>> \o
      (IF body_len > 0 THEN <<SendEv(k + 1, "body", body, body_len, env)>> ELSE <<>>)

\* a mapping that knows 501 by its registered reason phrase
StatusTextWith501(code) ==
  CASE code = 400 -> "Bad Request"
    [] code = 403 -> "Forbidden"
    [] code = 404 -> "Not Found"
    [] code = 500 -> "Internal Server Error"
    [] code = 501 -> "Not Implemented"
    [] OTHER -> "Error"

\* the switch of send_error: the status text sent for a code
StatusText(code) ==
  CASE code = 400 -> "Bad Request"
    [] code = 403 -> "Forbidden"
    [] code = 404 -> "Not Found"
    [] code = 500 -> "Internal Server Error"
    [] OTHER -> "Error"

ErrorBody(message) == snprintf(ERRBODY_SIZE, "{\"error\": \"" \o message \o "\"}").buf

send_error(k, env, code, message) ==
  send_response(k, env, code, StatusText(code), "application/json", ErrorBody(message))

(***************************************************************************)
(* read_file                                                               *)
(***************************************************************************)
\* ok: a buffer is returned; data, size: the buffer and *out_size
read_file(file_path, env) ==
  IF file_path \notin DOMAIN FS \/ ~FS[file_path].readable
    THEN [ok |-> FALSE, data |-> "", size |-> 0,
          events |-> <<Ev("fopen", file_path)>>]
  ELSE
    LET node  == FS[file_path]
        size  == IF node.kind = "dir" THEN env.dirsize ELSE Len(node.data)
        \* fread on a directory reads nothing; on a file it may come up short
        bytes_read == IF node.kind = "dir" THEN 0
                      ELSE IF env.fread = "short" /\ size > 0 THEN size - 1
                      ELSE size
        opened == <<Ev("fopen", file_path), Ev("fopened", file_path)>>
    IN  IF ~env.malloc
          THEN [ok |-> FALSE, data |-> "", size |-> 0,
                events |-> opened \o <<Ev("fclose", file_path)>>]
        ELSE IF bytes_read # size
          THEN [ok |-> FALSE, data |-> "", size |-> 0,
                events |-> opened \o <<Ev("malloc", ""), Ev("fread", file_path),
                                       Ev("fclose", file_path), Ev("free", "")>>]
        ELSE [ok |-> TRUE, data |-> SubSeq(node.data, 1, size), size |-> size,
              events |-> opened \o <<Ev("malloc", ""), Ev("fread", file_path),
                                     Ev("fclose", file_path)>>]

(***************************************************************************)
(* get_content_type                                                        *)
(***************************************************************************)
\* a lookup that takes the extension from the last segment of the path only
get_content_type_last_segment(path) ==
  LET name == SubSeq(path, strrchr(path, "/") + 1, Len(path))
      dot  == strrchr(name, ".")
      ext  == SubSeq(name, dot, Len(name))
  IN  IF dot = 0 THEN "text/plain"
      ELSE IF ext = ".html" THEN "text/html"
      ELSE IF ext = ".jpg" \/ ext = ".jpeg" THEN "image/jpeg"
      ELSE IF ext = ".png" THEN "image/png"
      ELSE IF ext = ".css" THEN "text/css"
      ELSE IF ext = ".js" THEN "application/javascript"
      ELSE "application/octet-stream"

get_content_type(path) ==
  LET dot == strrchr(path, ".")
      ext == SubSeq(path, dot, Len(path))
  IN  IF dot = 0 THEN "text/plain"
      ELSE IF ext = ".html" THEN "text/html"
      ELSE IF ext = ".jpg" \/ ext = ".jpeg" THEN "image/jpeg"
      ELSE IF ext = ".png" THEN "image/png"
      ELSE IF ext = ".css" THEN "text/css"
      ELSE IF ext = ".js" THEN "application/javascript"
      ELSE "application/octet-stream"

(***************************************************************************)
(* handle_client                                                           *)
(***************************************************************************)
\* a check that only looks for a leading "/.."
HasTraversalLeading(path) == Len(path) >= 3 /\ SubSeq(path, 1, 3) = "/.."

\* "Basic security: block path traversal"
HasTraversal(path) == strstr(path, "..")

\* a method check that also lets HEAD and lower case through
IsGetOrHead(method) == method \in {"GET", "get", "HEAD"}

\* "Only support GET requests"
IsGet(method) == method = "GET"

\* a path build that has no default file
RequestedPathNoDefault(root, path) == snprintf(PATH_MAX, root \o path).buf

\* "Default file (index.html)": the contents of requested_path
RequestedPath(root, path) ==
  IF path = "/" THEN snprintf(PATH_MAX, root \o "/index.html").buf
  ELSE snprintf(PATH_MAX, root \o path).buf

\* "Check if requested file is inside root_dir": the strncmp is 0
InsideRoot(real_requested_path, real_root) ==
  strncmpEq(real_requested_path, real_root, Len(real_root))

\* a success header that announces the wrong protocol version
OkHeaderHttp11(content_type, file_size) ==
  snprintf(HEADER_SIZE,
    "HTTP/1.1 200 OK\r\n" \o
    "Content-Type: " \o content_type \o "\r\n" \o
    "Content-Length: " \o ToString(file_size) \o "\r\n" \o
    "\r\n")

\* the header of the success response: the contents of header and header_len
OkHeader(content_type, file_size) ==
  snprintf(HEADER_SIZE,
    "HTTP/1.0 200 OK\r\n" \o
    "Content-Type: " \o content_type \o "\r\n" \o
    "Content-Length: " \o ToString(file_size) \o "\r\n" \o
    "\r\n")

\* a success path that returns after the 500 attempt without the free
SendFileLeak(env, real_requested_path, body, file_size) ==
  LET header == OkHeader(get_content_type(real_requested_path), file_size)
      sent   == SendRet(env.sends[2], file_size)
  IN  <<SendEv(1, "header", header.buf, header.ret, env),
        SendEv(2, "body", body, file_size, env)>> \o
      (IF sent = -1 THEN send_error(3, env, 500, "Failed to send response body")
       ELSE <<Ev("free", "")>>)

\* a success path that takes a send of 0 bytes for a failure
SendFileZeroFails(env, real_requested_path, body, file_size) ==
  LET header == OkHeader(get_content_type(real_requested_path), file_size)
      sent   == SendRet(env.sends[2], file_size)
  IN  <<SendEv(1, "header", header.buf, header.ret, env),
        SendEv(2, "body", body, file_size, env)>> \o
      (IF sent <= 0 THEN send_error(3, env, 500, "Failed to send response body")
       ELSE <<>>) \o
      <<Ev("free", "")>>

\* the header and body sends of the success path, the 500 attempt, free
SendFile(env, real_requested_path, body, file_size) ==
  LET header == OkHeader(get_content_type(real_requested_path), file_size)
      sent   == SendRet(env.sends[2], file_size)
  IN  <<SendEv(1, "header", header.buf, header.ret, env),
        SendEv(2, "body", body, file_size, env)>> \o
      (IF sent = -1 THEN send_error(3, env, 500, "Failed to send response body")
       ELSE <<>>) \o
      <<Ev("free", "")>>

\* a handler that does not test the result of the first realpath
DispatchUncheckedRealpath(root, req, env) ==
  LET path == StripQueryFragment(req.path)
      requested_path == RequestedPath(root, path)
      real_requested == realpath(requested_path)
      real_root == realpath(root)
      file == read_file(real_requested.path, env)
  IN  IF HasTraversal(path)
        THEN send_error(1, env, 403, "Forbidden path traversal")
      ELSE IF ~IsGet(req.method)
        THEN send_error(1, env, 501, "Only GET is supported")
      ELSE IF ~InsideRoot(real_requested.path, real_root.path)
        THEN <<Ev("realpath", requested_path), Ev("realpath", root)>> \o
             send_error(1, env, 403, "Forbidden path")
      ELSE IF ~file.ok
        THEN <<Ev("realpath", requested_path), Ev("realpath", root)>> \o
             file.events \o send_error(1, env, 404, "File not found")
      ELSE <<Ev("realpath", requested_path), Ev("realpath", root)>> \o
           file.events \o SendFile(env, real_requested.path, file.data, file.size)

\* a handler that tests the method before it looks for ".."
DispatchMethodFirst(root, req, env) ==
  LET path == StripQueryFragment(req.path)
      requested_path == RequestedPath(root, path)
      real_requested == realpath(requested_path)
      real_root == realpath(root)
      file == read_file(real_requested.path, env)
  IN  IF ~IsGet(req.method)
        THEN send_error(1, env, 501, "Only GET is supported")
      ELSE IF HasTraversal(path)
        THEN send_error(1, env, 403, "Forbidden path traversal")
      ELSE IF ~real_requested.ok
        THEN <<Ev("realpath", requested_path)>> \o
             send_error(1, env, 404, "File not found")
      ELSE IF ~InsideRoot(real_requested.path, real_root.path)
        THEN <<Ev("realpath", requested_path), Ev("realpath", root)>> \o
             send_error(1, env, 403, "Forbidden path")
      ELSE IF ~file.ok
        THEN <<Ev("realpath", requested_path), Ev("realpath", root)>> \o
             file.events \o send_error(1, env, 404, "File not found")
      ELSE <<Ev("realpath", requested_path), Ev("realpath", root)>> \o
           file.events \o SendFile(env, real_requested.path, file.data, file.size)

\* the events of the handler after a successful sscanf, up to the close
Dispatch(root, req, env) ==
  LET path == StripQueryFragment(req.path)
      requested_path == RequestedPath(root, path)
      real_requested == realpath(requested_path)
      real_root == realpath(root)
      file == read_file(real_requested.path, env)
  IN  IF HasTraversal(path)
        THEN send_error(1, env, 403, "Forbidden path traversal")
      ELSE IF ~IsGet(req.method)
        THEN send_error(1, env, 501, "Only GET is supported")
      ELSE IF ~real_requested.ok
        THEN <<Ev("realpath", requested_path)>> \o
             send_error(1, env, 404, "File not found")
      ELSE IF ~InsideRoot(real_requested.path, real_root.path)
        THEN <<Ev("realpath", requested_path), Ev("realpath", root)>> \o
             send_error(1, env, 403, "Forbidden path")
      ELSE IF ~file.ok
        THEN <<Ev("realpath", requested_path), Ev("realpath", root)>> \o
             file.events \o send_error(1, env, 404, "File not found")
      ELSE <<Ev("realpath", requested_path), Ev("realpath", root)>> \o
           file.events \o SendFile(env, real_requested.path, file.data, file.size)

\* a test that takes only a negative count for a dead connection
DeadConnectionNegative(numbytes) == numbytes < 0

\* "if (numbytes <= 0)": nothing was received
DeadConnection(numbytes) == numbytes <= 0

\* a handler that returns from a dead connection without closing it
handle_client_dead_leak(root, input, env) ==
  LET req == sscanf3(input.data)
  IN  IF DeadConnection(input.n) THEN <<Ev("recv", "")>>
      ELSE IF req.n # 3
        THEN <<Ev("recv", input.data), Ev("sscanf", "")>> \o
             send_error(1, env, 400, "Malformed request") \o <<Ev("close", "")>>
      ELSE <<Ev("recv", input.data), Ev("sscanf", "")>> \o
           Dispatch(root, req, env) \o <<Ev("close", "")>>

\* input: the result of recv, [n |-> numbytes, data |-> the bytes in buf]
handle_client(root, input, env) ==
  LET req == sscanf3(input.data)
  IN  IF DeadConnection(input.n) THEN <<Ev("recv", ""), Ev("close", "")>>
      ELSE IF req.n # 3
        THEN <<Ev("recv", input.data), Ev("sscanf", "")>> \o
             send_error(1, env, 400, "Malformed request") \o <<Ev("close", "")>>
      ELSE <<Ev("recv", input.data), Ev("sscanf", "")>> \o
           Dispatch(root, req, env) \o <<Ev("close", "")>>

(***************************************************************************)
(* What the clients send                                                   *)
(***************************************************************************)
Requests == {
  "GET / HTTP/1.0\r\n\r\n",
  "GET /index.html HTTP/1.0\r\n\r\n",
  "GET /style.css HTTP/1.0\r\n\r\n",
  "GET /style.css.bak HTTP/1.0\r\n\r\n",
  "GET /style.css?v=2 HTTP/1.0\r\n\r\n",
  "GET /?q=1 HTTP/1.0\r\n\r\n",
  "GET /style.css#top?x HTTP/1.0\r\n\r\n",
  "GET /index.html?up=.. HTTP/1.0\r\n\r\n",
  "GET /empty.js HTTP/1.0\r\n\r\n",
  "GET /pic.jpg HTTP/1.0\r\n\r\n",
  "GET /pic.jpeg HTTP/1.0\r\n\r\n",
  "GET /UP.HTML HTTP/1.0\r\n\r\n",
  "GET /x.png HTTP/1.0\r\n\r\n",
  "GET /missing.png HTTP/1.0\r\n\r\n",
  "GET /../etc/passwd HTTP/1.0\r\n\r\n",
  "GET /a..b HTTP/1.0\r\n\r\n",
  "GET /..#x HTTP/1.0\r\n\r\n",
  "GET /out HTTP/1.0\r\n\r\n",
  "GET /sib HTTP/1.0\r\n\r\n",
  "GET 2/secret HTTP/1.0\r\n\r\n",
  "GET /dead HTTP/1.0\r\n\r\n",
  "GET /priv HTTP/1.0\r\n\r\n",
  "GET /locked/f.html HTTP/1.0\r\n\r\n",
  "GET 2/none HTTP/1.0\r\n\r\n",
  "GET /. HTTP/1.0\r\n\r\n",
  "GET /a.b HTTP/1.0\r\n\r\n",
  "GET /a.b/readme HTTP/1.0\r\n\r\n",
  "GET /index.html/ HTTP/1.0\r\n\r\n",
  "POST / HTTP/1.0\r\n\r\n",
  "POST /../etc/passwd HTTP/1.0\r\n\r\n",
  "POST /x?.. HTTP/1.0\r\n\r\n",
  "HEAD /index.html HTTP/1.0\r\n\r\n",
  "get / HTTP/1.0\r\n\r\n",
  "OPTIONSX /a\r\n\r\n",
  "GET\r\n",
  "GET /\r\n",
  "\r\n",
  "GET\r\nHost: a\r\n\r\n",
  "GET /\r\nHost: a\r\n\r\n",
  "GET /index.html" \o Repeat("?", PATH_WIDTH) \o " HTTP/1.0\r\n\r\n"
}

\* recv(new_fd, buf, MAXDATASIZE - 1, 0): end of stream, an error, or bytes
RecvResults ==
  {[n |-> 0, data |-> ""], [n |-> -1, data |-> ""]} \cup
  {[n |-> Min(Len(r), MAXDATASIZE - 1),
    data |-> SubSeq(r, 1, Min(Len(r), MAXDATASIZE - 1))] : r \in Requests}

(***************************************************************************)
(* The server: main's accept loop                                          *)
(***************************************************************************)
VARIABLES root_dir, pc, naccept, conn, open, accepted, served

vars == <<root_dir, pc, naccept, conn, open, accepted, served>>

NoEnv == [sends |-> [k \in 1..4 |-> "full"], malloc |-> TRUE, fread |-> "full",
          dirsize |-> 0]

\* id: the accept call that returned the connection (0: none yet)
NoConn == [id |-> 0, input |-> [n |-> 0, data |-> ""], env |-> NoEnv,
           events |-> <<>>]

\* open: the client descriptors not yet closed; accepted: the connections in
\* the order accept returned them; served: in the order handle_client returned
Init ==
  /\ root_dir \in RootDirs
  /\ pc = "accept"
  /\ naccept = 0
  /\ conn = NoConn
  /\ open = {}
  /\ accepted = <<>>
  /\ served = <<>>

\* accept returns a descriptor: "Client connected!"
Accept ==
  /\ pc = "accept"
  /\ naccept < MaxAccepts
  /\ pc' = "handle"
  /\ naccept' = naccept + 1
  /\ conn' = [NoConn EXCEPT !.id = naccept + 1]
  /\ open' = open \cup {naccept + 1}
  /\ accepted' = Append(accepted, naccept + 1)
  /\ UNCHANGED <<root_dir, served>>

\* accept returns -1: perror, continue
AcceptFail ==
  /\ pc = "accept"
  /\ naccept < MaxAccepts
  /\ naccept' = naccept + 1
  /\ UNCHANGED <<root_dir, pc, conn, open, accepted, served>>

\* some event of the sequence is the call op
Performs(events, op) == \E i \in 1..Len(events) : events[i].op = op

\* the number of send calls among the events
NumSends(events) == Len(SelectSeq(events, LAMBDA e : e.op = "send"))

\* the outcomes of the send calls from the k-th on, given the outcomes s of
\* the calls before it: a call that is not made has no outcome ("full")
RECURSIVE SendOutcomes(_, _, _, _, _)
SendOutcomes(root, input, re, s, k) ==
  IF k > 4 \/ NumSends(handle_client(root, input, [re EXCEPT !.sends = s])) < k
    THEN {s}
    ELSE UNION {SendOutcomes(root, input, re, [s EXCEPT ![k] = m], k + 1) :
                  m \in SendModes}

\* the environments that differ in the outcome of a call this connection
\* makes: the outcome of a call that is never made is left at its default
EnvsFor(root, input) ==
  LET reads == IF Performs(handle_client(root, input, NoEnv), "fopened")
                 THEN {[NoEnv EXCEPT !.malloc = m, !.fread = f, !.dirsize = d] :
                         m \in BOOLEAN, f \in {"full", "short"}, d \in DirSizes}
                 ELSE {NoEnv}
  IN  UNION {{[re EXCEPT !.sends = s] :
                s \in SendOutcomes(root, input, re, NoEnv.sends, 1)} : re \in reads}

\* handle_client(new_fd, root_dir) from recv to return
HandleClient ==
  /\ pc = "handle"
  /\ \E input \in RecvResults :
       \E env \in EnvsFor(root_dir, input) :
         /\ conn' = [conn EXCEPT !.input = input, !.env = env,
                                 !.events = handle_client(root_dir, input, env)]
         /\ open' = IF Performs(handle_client(root_dir, input, env), "close")
                      THEN open \ {conn.id} ELSE open
  /\ served' = Append(served, conn.id)
  /\ pc' = "accept"
  /\ UNCHANGED <<root_dir, naccept, accepted>>

Next == Accept \/ AcceptFail \/ HandleClient

Spec == Init /\ [][Next]_vars

(***************************************************************************)
(* Reading a connection's events back, as a client or an observer would    *)
(***************************************************************************)
\* the handler has returned for the connection in conn
Done == pc = "accept" /\ conn.events # <<>>

\* index of the first occurrence of sub in s, 0 when absent
IndexOf(s, sub) ==
  IF \E i \in 1..(Len(s) - Len(sub) + 1) : SubSeq(s, i, i + Len(sub) - 1) = sub
    THEN CHOOSE i \in 1..(Len(s) - Len(sub) + 1) :
           /\ SubSeq(s, i, i + Len(sub) - 1) = sub
           /\ \A j \in 1..(i - 1) : SubSeq(s, j, j + Len(sub) - 1) # sub
    ELSE 0

\* the text of s before the first occurrence of sub (all of s when absent)
Before(s, sub) == IF IndexOf(s, sub) = 0 THEN s ELSE SubSeq(s, 1, IndexOf(s, sub) - 1)

\* the text of s after the first occurrence of sub ("" when absent)
After(s, sub) ==
  IF IndexOf(s, sub) = 0 THEN "" ELSE SubSeq(s, IndexOf(s, sub) + Len(sub), Len(s))

StatusLineOf(h) == Before(h, "\r\n")
VersionOf(h) == Before(StatusLineOf(h), " ")
StatusCodeOf(h) == Before(After(StatusLineOf(h), " "), " ")
ReasonOf(h) == After(After(StatusLineOf(h), " "), " ")
HeaderField(h, name) == Before(After(h, "\r\n" \o name \o ": "), "\r\n")

OpsOf(events, ops) == SelectSeq(events, LAMBDA e : e.op \in ops)
HeadersOf(events) == SelectSeq(events, LAMBDA e : e.op = "send" /\ e.part = "header")
BodiesOf(events) == SelectSeq(events, LAMBDA e : e.op = "send" /\ e.part = "body")

\* the status codes of the responses handed to send, in order
StatusCodes(events) ==
  [i \in 1..Len(HeadersOf(events)) |-> StatusCodeOf(HeadersOf(events)[i].data)]

\* the request as the handler parsed it
Parsed == sscanf3(conn.input.data)
ParsedOk == conn.input.n > 0 /\ Parsed.n = 3
Target == StripQueryFragment(Parsed.path)

\* two adjacent dots somewhere in s
ContainsDotDot(s) ==
  \E i \in 1..(Len(s) - 1) : Char(s, i) = "." /\ Char(s, i + 1) = "."

JsonError(message) == "{\"error\": \"" \o message \o "\"}"

(***************************************************************************)
(* C1: a request that parses into three tokens and whose target, after the *)
(* query string and fragment are cut off, contains ".." is answered with   *)
(* 403 and never with 200, whatever the method and whether or not a file   *)
(* of that name exists.                                                    *)
(***************************************************************************)
C1_DotDotForbidden ==
  (Done /\ ParsedOk /\ ContainsDotDot(Target)) =>
     StatusCodes(conn.events) = <<"403">>

\* POST and GET for a target with "..", one of them naming an existing file
C1_Witness ==
  /\ Done /\ ParsedOk /\ ContainsDotDot(Target)
  /\ Parsed.method = "GET"
  /\ root_dir \o Target \in DOMAIN FS
  /\ StatusCodes(conn.events) = <<"403">>

(***************************************************************************)
(* C2: a 200 response is only ever sent for a canonical path that is a     *)
(* strict descendant of the canonical root; a candidate that canonicalizes *)
(* anywhere else (through a symbolic link, or to a sibling whose name      *)
(* starts with the root's name) is answered with 403.                      *)
(***************************************************************************)
\* p lies below the directory r: r, a separator, and at least one more byte
StrictDescendant(p, r) ==
  IF r = "/" THEN Len(p) > 1
  ELSE /\ Len(p) > Len(r) + 1
       /\ SubSeq(p, 1, Len(r)) = r
       /\ Char(p, Len(r) + 1) = "/"

CanonicalCandidate == realpath(RequestedPath(root_dir, Target))

C2_OnlyDescendantsServed ==
  (Done /\ ParsedOk /\ \E i \in 1..Len(StatusCodes(conn.events)) :
                          StatusCodes(conn.events)[i] = "200")
  => /\ CanonicalCandidate.ok
     /\ StrictDescendant(CanonicalCandidate.path, realpath(root_dir).path)

(***************************************************************************)
(* C3: a request that parses into three tokens and whose method is not     *)
(* exactly GET is answered with 501, content type application/json and the *)
(* body {"error": "Only GET is supported"}.  As stated (for every target)  *)
(* it fails; it holds for the targets without ".." after stripping.        *)
(***************************************************************************)
Is501(events) ==
  /\ StatusCodes(events) = <<"501">>
  /\ HeaderField(HeadersOf(events)[1].data, "Content-Type") = "application/json"
  /\ Len(BodiesOf(events)) = 1
  /\ BodiesOf(events)[1].data = "{\"error\": \"Only GET is supported\"}"

C3_NonGetIs501_AnyTarget ==
  (Done /\ ParsedOk /\ Parsed.method # "GET") => Is501(conn.events)

C3_NonGetIs501 ==
  (Done /\ ParsedOk /\ Parsed.method # "GET" /\ ~ContainsDotDot(Target)) =>
     Is501(conn.events)

C3_Witness ==
  /\ Done /\ ParsedOk /\ Parsed.method = "HEAD" /\ ~ContainsDotDot(Target)
  /\ Is501(conn.events)

(***************************************************************************)
(* C4: in a 200 response the Content-Length value equals the number of     *)
(* body bytes written to the connection, and those bytes are the file's    *)
(* contents, for every outcome of the body send (full or short write).     *)
(***************************************************************************)
\* the bytes of a send call that reached the connection
Written(e) == IF e.ret > 0 THEN SubSeq(e.data, 1, e.ret) ELSE ""

Is200(events) == Len(HeadersOf(events)) > 0 /\ StatusCodeOf(HeadersOf(events)[1].data) = "200"

C4_LengthMatchesWrittenBody ==
  (Done /\ Is200(conn.events)) =>
     /\ HeaderField(HeadersOf(conn.events)[1].data, "Content-Length") =
          ToString(Len(Written(BodiesOf(conn.events)[1])))
     /\ Written(BodiesOf(conn.events)[1]) = FS[CanonicalCandidate.path].data

(***************************************************************************)
(* C5: a connection on which at least one byte is received gets exactly    *)
(* one response (one status line) before it is closed.  As stated (also    *)
(* when sending the body fails) it fails; exactly one status line is       *)
(* written unless the body send returns -1, and then exactly two: the 200  *)
(* and the 500 of the failure report.                                      *)
(***************************************************************************)
BodySendFailed(events) == Is200(events) /\ BodiesOf(events)[1].ret = -1

C5_ExactlyOneResponse ==
  (Done /\ conn.input.n > 0) => Len(HeadersOf(conn.events)) = 1

C5_OneResponseUnlessBodySendFails ==
  (Done /\ conn.input.n > 0) =>
     /\ ~BodySendFailed(conn.events) => Len(HeadersOf(conn.events)) = 1
     /\ BodySendFailed(conn.events) => StatusCodes(conn.events) = <<"200", "500">>
     /\ conn.events[Len(conn.events)].op = "close"

C5_Witness ==
  /\ Done /\ conn.input.n > 0
  /\ BodySendFailed(conn.events)
  /\ StatusCodes(conn.events) = <<"200", "500">>

(***************************************************************************)
(* C6: on every exit path of handle_client the client descriptor is closed *)
(* exactly once, nothing is written to it after the close, and a buffer    *)
(* allocated by read_file has been freed exactly once on return.           *)
(***************************************************************************)
Count(events, op) == Len(OpsOf(events, {op}))

C6_CloseOnceFreeOnce ==
  Done =>
     /\ Count(conn.events, "close") = 1
     /\ conn.events[Len(conn.events)].op = "close"
     /\ Count(conn.events, "malloc") <= 1
     /\ Count(conn.events, "free") = Count(conn.events, "malloc")
     /\ \A i, j \in 1..Len(conn.events) :
          (conn.events[i].op = "malloc" /\ conn.events[j].op = "free") => i < j

\* the send failure path: a buffer was allocated, two responses were tried
C6_Witness ==
  /\ Done
  /\ Count(conn.events, "malloc") = 1 /\ Count(conn.events, "free") = 1
  /\ Count(conn.events, "close") = 1
  /\ StatusCodes(conn.events) = <<"200", "500">>

(***************************************************************************)
(* C7: with the file system unchanged, the response to "GET / HTTP/1.0" is *)
(* byte for byte the response to "GET /index.html HTTP/1.0", whether       *)
(* index.html exists or not.                                               *)
(***************************************************************************)
SlashRequest == "GET / HTTP/1.0\r\n\r\n"
IndexRequest == "GET /index.html HTTP/1.0\r\n\r\n"

\* the send calls (bytes, lengths, results) of a request under root and env
ResponseTo(root, request, env) ==
  OpsOf(handle_client(root, [n |-> Len(request), data |-> request], env), {"send"})

C7_SlashIsIndex ==
  (Done /\ conn.input.data = SlashRequest) =>
     OpsOf(conn.events, {"send"}) = ResponseTo(root_dir, IndexRequest, conn.env)

C7_Witness ==
  /\ Done /\ conn.input.data = SlashRequest
  /\ root_dir = "/l"
  /\ StatusCodes(conn.events) = <<"200">>
  /\ BodiesOf(conn.events)[1].data = "Hello World!\n"
  /\ OpsOf(conn.events, {"send"}) = ResponseTo(root_dir, IndexRequest, conn.env)

(***************************************************************************)
(* C8: a non-empty buffer whose first line has fewer than three white      *)
(* space separated tokens is answered with 400 and the body                *)
(* {"error": "Malformed request"}, whatever follows the first line, and    *)
(* without any file system access.                                         *)
(***************************************************************************)
FirstLine(buf) == Before(buf, "\n")

\* the number of maximal runs of bytes that are not white space
TokenCount(s) ==
  Cardinality({i \in 1..Len(s) :
                 /\ ~isspace(Char(s, i))
                 /\ i = 1 \/ isspace(Char(s, i - 1))})

FileSystemOps == {"realpath", "fopen", "fopened", "fread", "fclose"}

Is400(events) ==
  /\ StatusCodes(events) = <<"400">>
  /\ Len(BodiesOf(events)) = 1
  /\ BodiesOf(events)[1].data = JsonError("Malformed request")
  /\ OpsOf(events, FileSystemOps) = <<>>

C8_ShortFirstLineIs400 ==
  (Done /\ conn.input.n > 0 /\ TokenCount(FirstLine(conn.input.data)) < 3) =>
     Is400(conn.events)

(***************************************************************************)
(* C9: when recv returns zero or a negative count, handle_client writes    *)
(* nothing to the connection and closes it; nothing is parsed and the file *)
(* system is not touched.                                                  *)
(***************************************************************************)
OpNames(events) == [i \in 1..Len(events) |-> events[i].op]

C9_DeadConnectionSilent ==
  (Done /\ conn.input.n <= 0) => OpNames(conn.events) = <<"recv", "close">>

C9_Witness ==
  /\ Done /\ conn.input.n = 0
  /\ OpNames(conn.events) = <<"recv", "close">>

(***************************************************************************)
(* C10: every error response has content type application/json, a body    *)
(* {"error": "<message>"}, a Content-Length equal to the byte length of    *)
(* that body, a header block that ends with an empty line right before the *)
(* body, and the reason phrase 400 Bad Request, 403 Forbidden, 404 Not     *)
(* Found, 500 Internal Server Error, Error for any other code (501).       *)
(***************************************************************************)
\* the messages handle_client passes for a status code
MessagesFor(code) ==
  CASE code = "400" -> {"Malformed request"}
    [] code = "403" -> {"Forbidden path traversal", "Forbidden path"}
    [] code = "404" -> {"File not found"}
    [] code = "500" -> {"Failed to send response body"}
    [] code = "501" -> {"Only GET is supported"}
    [] OTHER -> {}

ReasonFor(code) ==
  CASE code = "400" -> "Bad Request"
    [] code = "403" -> "Forbidden"
    [] code = "404" -> "Not Found"
    [] code = "500" -> "Internal Server Error"
    [] OTHER -> "Error"

\* events[i] is the header of an error response, events[i + 1] its body
WellFormedError(events, i) ==
  LET h == events[i].data
      code == StatusCodeOf(h)
  IN  /\ VersionOf(h) = "HTTP/1.0"
      /\ ReasonOf(h) = ReasonFor(code)
      /\ HeaderField(h, "Content-Type") = "application/json"
      /\ events[i].len = Len(h)
      /\ IndexOf(h, "\r\n\r\n") = Len(h) - 3
      /\ i < Len(events)
      /\ events[i + 1].op = "send" /\ events[i + 1].part = "body"
      /\ events[i + 1].data \in {JsonError(m) : m \in MessagesFor(code)}
      /\ events[i + 1].len = Len(events[i + 1].data)
      /\ HeaderField(h, "Content-Length") = ToString(Len(events[i + 1].data))

IsErrorHeader(e) == e.op = "send" /\ e.part = "header" /\ StatusCodeOf(e.data) # "200"

C10_ErrorResponseFormat ==
  Done => \A i \in 1..Len(conn.events) :
            IsErrorHeader(conn.events[i]) => WellFormedError(conn.events, i)

\* a 501, the code without a reason phrase of its own
C10_Witness ==
  /\ Done
  /\ \E i \in 1..Len(conn.events) :
       /\ IsErrorHeader(conn.events[i])
       /\ StatusCodeOf(conn.events[i].data) = "501"
       /\ ReasonOf(conn.events[i].data) = "Error"
       /\ WellFormedError(conn.events, i)

(***************************************************************************)
(* C11: at most one client connection is open at any time: an accepted     *)
(* connection is handled and closed before accept is called again, so the  *)
(* connections are served in the order they were accepted; a failed accept *)
(* does not stop the loop.                                                 *)
(***************************************************************************)
C11_OneConnectionAtATime ==
  /\ Cardinality(open) <= 1
  /\ pc = "accept" => (open = {} /\ served = accepted)
  /\ pc = "handle" => (/\ open = {conn.id}
                       /\ accepted = Append(served, conn.id))
  /\ \A i, j \in 1..Len(served) : i < j => served[i] < served[j]
  /\ (pc = "accept" /\ naccept < MaxAccepts) => ENABLED Accept

\* the first accept failed, the second returned a connection that was served
C11_Witness ==
  /\ pc = "accept" /\ naccept = 2
  /\ accepted = <<2>> /\ served = <<2>>
  /\ open = {}
  /\ Performs(conn.events, "send")

(***************************************************************************)
(* C12: in every reachable state every status code written to a connection *)
(* is one of 200, 400, 403, 404, 500, 501, and every status line starts    *)
(* with HTTP/1.0.                                                          *)
(***************************************************************************)
ProducedCodes == {"200", "400", "403", "404", "500", "501"}

StartsWith(s, prefix) == Len(s) >= Len(prefix) /\ SubSeq(s, 1, Len(prefix)) = prefix

C12_StatusCodesAndVersion ==
  \A i \in 1..Len(HeadersOf(conn.events)) :
     /\ StatusCodeOf(HeadersOf(conn.events)[i].data) \in ProducedCodes
     /\ StartsWith(HeadersOf(conn.events)[i].data, "HTTP/1.0 ")

\* a connection whose two status lines are a success and an error
C12_Witness ==
  /\ Len(HeadersOf(conn.events)) = 2
  /\ StatusLineOf(HeadersOf(conn.events)[1].data) = "HTTP/1.0 200 OK"
  /\ StatusLineOf(HeadersOf(conn.events)[2].data) = "HTTP/1.0 500 Internal Server Error"

(***************************************************************************)
(* C13: the checks are applied in a fixed order (malformed request line,   *)
(* ".." in the target, method, canonicalization, containment, file load)   *)
(* and the first failing check decides the response; a request rejected as *)
(* malformed (400), for ".." (403) or as non-GET (501) causes no file      *)
(* system operation.                                                       *)
(***************************************************************************)
FsOpNames(events) == OpNames(OpsOf(events, FileSystemOps))

FirstBody(events) == BodiesOf(events)[1].data

C13_FirstFailingCheckDecides ==
  (Done /\ conn.input.n > 0) =>
     IF Parsed.n # 3
       THEN /\ StatusCodes(conn.events) = <<"400">>
            /\ FsOpNames(conn.events) = <<>>
     ELSE IF ContainsDotDot(Target)
       THEN /\ StatusCodes(conn.events) = <<"403">>
            /\ FirstBody(conn.events) = JsonError("Forbidden path traversal")
            /\ FsOpNames(conn.events) = <<>>
     ELSE IF Parsed.method # "GET"
       THEN /\ StatusCodes(conn.events) = <<"501">>
            /\ FsOpNames(conn.events) = <<>>
     ELSE IF ~CanonicalCandidate.ok
       THEN /\ StatusCodes(conn.events) = <<"404">>
            /\ FsOpNames(conn.events) = <<"realpath">>
     ELSE IF ~StartsWith(CanonicalCandidate.path, realpath(root_dir).path)
       THEN /\ StatusCodes(conn.events) = <<"403">>
            /\ FirstBody(conn.events) = JsonError("Forbidden path")
            /\ FsOpNames(conn.events) = <<"realpath", "realpath">>
     ELSE /\ StatusCodes(conn.events)[1] \in {"200", "404"}
          /\ Len(FsOpNames(conn.events)) >= 3
          /\ SubSeq(FsOpNames(conn.events), 1, 3) = <<"realpath", "realpath", "fopen">>

\* a request that fails the ".." check and the method check: 403 decides
C13_Witness ==
  /\ Done /\ ParsedOk
  /\ Parsed.method = "POST" /\ ContainsDotDot(Target)
  /\ StatusCodes(conn.events) = <<"403">>
  /\ FsOpNames(conn.events) = <<>>

(***************************************************************************)
(* C14: a GET request (target without "..") whose candidate path cannot be *)
(* canonicalized (missing file, broken symbolic link, directory that may   *)
(* not be searched) is answered 404 "File not found"; the containment      *)
(* check and the file loader are not reached, also when the missing path   *)
(* would lie outside the root.                                             *)
(***************************************************************************)
Uncanonical ==
  /\ Done /\ ParsedOk /\ Parsed.method = "GET" /\ ~ContainsDotDot(Target)
  /\ ~CanonicalCandidate.ok

C14_UncanonicalIs404 ==
  Uncanonical =>
     /\ StatusCodes(conn.events) = <<"404">>
     /\ FirstBody(conn.events) = JsonError("File not found")
     /\ OpsOf(conn.events, FileSystemOps) =
          <<Ev("realpath", RequestedPath(root_dir, Target))>>

\* a missing path next to the root: /w2/none for the root /w
C14_Witness ==
  /\ Uncanonical
  /\ root_dir = "/w" /\ Target = "2/none"
  /\ StatusCodes(conn.events) = <<"404">>
  /\ FsOpNames(conn.events) = <<"realpath">>

(***************************************************************************)
(* C15: when read_file cannot open the path (missing, permission denied,   *)
(* a directory), cannot allocate the buffer, or reads fewer bytes than the *)
(* size it measured, it fails with no buffer left allocated and the file   *)
(* closed, and handle_client answers 404 "File not found"; no 200 response *)
(* comes out of such a load.                                               *)
(***************************************************************************)
\* the path handed to read_file, when the loader was reached
LoadedPath == OpsOf(conn.events, {"fopen"})[1].data

LoaderReached == Done /\ Performs(conn.events, "fopen")

\* the cases in which the load is to fail
LoadMustFail ==
  \/ LoadedPath \notin DOMAIN FS
  \/ ~FS[LoadedPath].readable
  \/ FS[LoadedPath].kind = "dir"
  \/ ~conn.env.malloc
  \/ conn.env.fread = "short" /\ Len(FS[LoadedPath].data) > 0

LoadFailed404(events) ==
  /\ StatusCodes(events) = <<"404">>
  /\ FirstBody(events) = JsonError("File not found")
  /\ Count(events, "free") = Count(events, "malloc")
  /\ Count(events, "fclose") = Count(events, "fopened")

C15_LoadFailureIs404 ==
  (LoaderReached /\ LoadMustFail) => LoadFailed404(conn.events)

(***************************************************************************)
(* C16: when root_dir followed by the target (by /index.html for the       *)
(* target /) is longer than PATH_MAX, the request fails with an error      *)
(* response (404) and nothing is served from a truncated path.             *)
(***************************************************************************)
\* the path the request names, before it is put into requested_path
FullCandidate ==
  IF Target = "/" THEN root_dir \o "/index.html" ELSE root_dir \o Target

C16_TooLongIsNotFound ==
  (/\ Done /\ ParsedOk /\ Parsed.method = "GET" /\ ~ContainsDotDot(Target)
   /\ Len(FullCandidate) > PATH_MAX)
  => /\ StatusCodes(conn.events) = <<"404">>
     /\ ~Performs(conn.events, "fopen")

(***************************************************************************)
(* C17: when the send of the file body reports an error or writes fewer    *)
(* bytes than the file size, one 500 response is attempted on the          *)
(* connection before the buffer is freed and the connection closed; when   *)
(* the body is written in full no 500 is attempted.                        *)
(***************************************************************************)
\* the positions in events of the calls op
PositionsOf(events, op) == {i \in 1..Len(events) : events[i].op = op}

\* the positions of the sends of a 500 header
Attempts500(events) ==
  {i \in PositionsOf(events, "send") :
     events[i].part = "header" /\ StatusCodeOf(events[i].data) = "500"}

\* the position of the send of the file body of a 200 response
FileBodyAt(events) ==
  CHOOSE i \in PositionsOf(events, "send") :
    /\ events[i].part = "body"
    /\ \A j \in 1..(i - 1) : ~(events[j].op = "send" /\ events[j].part = "body")

C17_BodyFailureAttempts500 ==
  (Done /\ Is200(conn.events)) =>
    LET ev   == conn.events
        body == FileBodyAt(ev)
    IN  IF ev[body].ret < ev[body].len
          THEN /\ Cardinality(Attempts500(ev)) = 1
               /\ \A i \in Attempts500(ev) :
                    /\ body < i
                    /\ \A f \in PositionsOf(ev, "free") : i < f
                    /\ \A c \in PositionsOf(ev, "close") : i < c
          ELSE Attempts500(ev) = {}

(***************************************************************************)
(* C18: the Content-Type of a 200 response is a function of the canonical  *)
(* path alone: text/plain when the path has no ".", otherwise looked up    *)
(* by the suffix that starts at the rightmost "." of the whole path,       *)
(* exactly and case-sensitively, application/octet-stream when the suffix  *)
(* is not in the table.                                                    *)
(***************************************************************************)
ExtensionTable ==
  ".html" :> "text/html" @@
  ".jpg"  :> "image/jpeg" @@
  ".jpeg" :> "image/jpeg" @@
  ".png"  :> "image/png" @@
  ".css"  :> "text/css" @@
  ".js"   :> "application/javascript"

\* the suffixes of path that start with "."
DotSuffixes(path) ==
  {SubSeq(path, i, Len(path)) : i \in {j \in 1..Len(path) : Char(path, j) = "."}}

ExpectedType(path) ==
  IF DotSuffixes(path) = {} THEN "text/plain"
  ELSE LET ext == CHOOSE x \in DotSuffixes(path) :
                    \A y \in DotSuffixes(path) : Len(x) <= Len(y)
       IN  IF ext \in DOMAIN ExtensionTable THEN ExtensionTable[ext]
           ELSE "application/octet-stream"

ContentTypeOf(events) == HeaderField(HeadersOf(events)[1].data, "Content-Type")

C18_ContentTypeFromCanonicalPath ==
  (Done /\ Is200(conn.events)) =>
     ContentTypeOf(conn.events) = ExpectedType(CanonicalCandidate.path)

\* a file below a directory whose name has a ".": the suffix is ".b/readme"
C18_Witness ==
  /\ Done /\ Is200(conn.events)
  /\ CanonicalCandidate.path = "/w/a.b/readme"
  /\ ContentTypeOf(conn.events) = "application/octet-stream"

(***************************************************************************)
(* C19: a request whose target T has at most 255 characters gets the same  *)
(* response as the request with T cut at its first "?" or "#": what        *)
(* follows the mark changes neither status, headers nor body.              *)
(***************************************************************************)
\* where the target (the second token) of the request starts, and the index
\* after its last byte
RawTargetFrom(data) ==
  SkipSpace(data, TokenEnd(data, SkipSpace(data, 1), Len(data)))
RawTargetTo(data) == TokenEnd(data, RawTargetFrom(data), Len(data))
RawTarget(data) == SubSeq(data, RawTargetFrom(data), RawTargetTo(data) - 1)

\* the indexes of the marks "?" and "#" in T
Marks(T) == {i \in 1..Len(T) : Char(T, i) \in {"?", "#"}}

CutTarget(T) ==
  IF Marks(T) = {} THEN T
  ELSE SubSeq(T, 1, (CHOOSE i \in Marks(T) : \A j \in Marks(T) : i <= j) - 1)

\* the request with its target replaced by the cut target
CutRequest(data) ==
  SubSeq(data, 1, RawTargetFrom(data) - 1) \o CutTarget(RawTarget(data)) \o
  SubSeq(data, RawTargetTo(data), Len(data))

\* the request has a target of at most 255 characters with a mark in it and
\* something before the mark
HasQueryOrFragment(in) ==
  /\ in.n > 0
  /\ RawTargetFrom(in.data) <= Len(in.data)
  /\ Len(RawTarget(in.data)) <= PATH_WIDTH
  /\ Marks(RawTarget(in.data)) # {}
  /\ CutTarget(RawTarget(in.data)) # ""

C19_QueryAndFragmentIgnored ==
  (Done /\ HasQueryOrFragment(conn.input)) =>
     OpsOf(conn.events, {"send"}) =
       ResponseTo(root_dir, CutRequest(conn.input.data), conn.env)

\* the fragment comes first and a "?" follows it: served as /style.css
C19_Witness ==
  /\ Done /\ HasQueryOrFragment(conn.input)
  /\ RawTarget(conn.input.data) = "/style.css#top?x"
  /\ CutRequest(conn.input.data) = "GET /style.css HTTP/1.0\r\n\r\n"
  /\ StatusCodes(conn.events) = <<"200">>
  /\ ContentTypeOf(conn.events) = "text/css"
  /\ FirstBody(conn.events) = "p{}"

(***************************************************************************)
(* C20: the response to a request does not depend on how the root          *)
(* directory is written: every root_dir string that names the same         *)
(* directory (with or without trailing separators, or through a symlink)   *)
(* gives the same response, and a file inside the root is never answered   *)
(* with 403.                                                               *)
(***************************************************************************)
\* the root_dir strings that name the directory that root names
SameDirectory(root) ==
  {r \in RootDirs : realpath(r).ok /\ realpath(r) = realpath(root)}

\* the file root_dir and the target name when a separator is put between them
NamedFile(root, target) ==
  realpath(root \o "/" \o (IF target = "/" THEN "index.html" ELSE target))

C20_RootSpellingIrrelevant ==
  (Done /\ ParsedOk) =>
     /\ \A r \in SameDirectory(root_dir) :
          OpsOf(conn.events, {"send"}) = ResponseTo(r, conn.input.data, conn.env)
     /\ (/\ NamedFile(root_dir, Target).ok
         /\ StrictDescendant(NamedFile(root_dir, Target).path, realpath(root_dir).path)
         /\ ~ContainsDotDot(Target))
        => \A i \in 1..Len(StatusCodes(conn.events)) :
             StatusCodes(conn.events)[i] # "403"

====
